---- MODULE Spec2Model ----
(***************************************************************************)
(* Model of backend/app.py: the /generate-post route, the per-request      *)
(* LinkedInPostGenerator (VectorDB, agent with WebSearchTool, memory) and  *)
(* PostGenerator.  Requests are handled concurrently; each action is one   *)
(* step of one request between two blocking calls.                         *)
(***************************************************************************)
EXTENDS Naturals, Sequences, FiniteSets, TLC

\* ----------------------------------------------------------------- bounds
NumRequests == 2
Requests == 1..NumRequests

\* ------------------------------------------------------ program constants
\* A cap one iteration too long.
LooserCap == 3 + 1

\* initialize_agent(..., max_iterations=3)
max_iterations == 3

\* ------------------------------------------------------------ value sets
None == "None"                      \* Python's None / an absent JSON field
ValidBody == [topic |-> "AI", tone |-> "formal", audience |-> "marketers"]
Missing == {None, ""}                \* an absent field, an empty string
\* JSON objects a client sends: the valid one, the empty object, and one
\* with each field in turn absent or empty.
ObjectBodies ==
  {ValidBody, [topic |-> None, tone |-> None, audience |-> None]}
    \cup {[ValidBody EXCEPT !.topic = m] : m \in Missing}
    \cup {[ValidBody EXCEPT !.tone = m] : m \in Missing}
    \cup {[ValidBody EXCEPT !.audience = m] : m \in Missing}

\* Exceptions are records [kind, text]; text is what str() is built from.
NoError == [kind |-> "none", text |-> ""]
Exc(k, t) == [kind |-> k, text |-> t]
\* What the embeddings / model constructors, FAISS.from_texts, the agent's
\* model call, similarity_search and chain.run can throw; ProviderError
\* stands for every class outside the three caught ones.
CtorFailures == {Exc("ValueError", "api key missing")}
QueryFailures == {Exc("ProviderError", "embedding failed")}
InitFailures == {Exc("ValueError", "bad embedding"), Exc("ProviderError", "no model")}
AgentFailures == {Exc("KeyError", "output"), Exc("ProviderError", "quota exceeded")}
ChainFailures == {Exc("ValueError", "quota exceeded"), Exc("TypeError", "bad prompt"),
                  Exc("KeyError", "context"), Exc("ProviderError", "quota exceeded")}

\* str(e): KeyError shows the repr of its argument, the others the text.
Str(e) == IF e.kind = "KeyError" THEN "'" \o e.text \o "'" ELSE e.text

\* Python truthiness of a request field: None and "" are falsy.
Falsy(v) == v = None \/ v = ""

\* The three except clauses, each (ValueError, TypeError, KeyError).
CaughtByLatestInfo(kind) == kind \in {"ValueError", "TypeError", "KeyError"}

\* A handler written as "except Exception".
CaughtByGeneratePostAll(kind) == TRUE

CaughtByGeneratePost(kind) == kind \in {"ValueError", "TypeError", "KeyError"}

CaughtByRoute(kind) == kind \in {"ValueError", "TypeError", "KeyError"}

\* ------------------------------------------------------------ WebSearchTool
FALLBACK_1 == "Unable to fetch latest information. Using cached data instead."
FALLBACK_2 == "Search functionality temporarily unavailable."
LiveAbstract == "live abstract"

\* What the HTTP lookup can come back with.
LookupOutcomes == {"ConnectionError", "Timeout", "HTTPError", "BadJSON",
                   "NonObject", "NoField", "EmptyAbstract", "Abstract"}

\* _fallback_search: the try body is a plain return, the handler is dead.
fallback_search(query) == FALLBACK_1

\* _run: [raised, value, logged].  requests.get / raise_for_status raise a
\* RequestException, response.json() a JSONDecodeError; both are caught and
\* logged as "Web search error".  A JSON body that is not an object has no
\* .get: AttributeError, which the except clause does not name.
run(query, outcome) ==
  CASE outcome \in {"ConnectionError", "Timeout", "HTTPError", "BadJSON"} ->
         [raised |-> NoError, value |-> fallback_search(query), logged |-> TRUE]
    [] outcome = "NonObject" ->
         [raised |-> Exc("AttributeError", "no attribute 'get'"),
          value |-> None, logged |-> FALSE]
    [] outcome \in {"NoField", "EmptyAbstract"} ->
         [raised |-> NoError, value |-> fallback_search(query), logged |-> FALSE]
    [] OTHER ->
         [raised |-> NoError, value |-> LiveAbstract, logged |-> FALSE]

search(query, outcome) == run(query, outcome)

\* ------------------------------------------------------------------ VectorDB
\* initialize without the re-raise: the failure is only logged.
InitializeSwallow(failure) ==
  IF failure = NoError
    THEN [db |-> "index", raised |-> NoError,
          logged |-> <<[src |-> "Vector database initialized", text |-> ""]>>]
    ELSE [db |-> None, raised |-> NoError,
          logged |-> <<[src |-> "Vector database initialization error",
                        text |-> Str(failure)]>>]

\* initialize: FAISS.from_texts either builds the index or throws; the
\* handler logs and re-raises.  [db, raised, logged]
initialize(failure) ==
  IF failure = NoError
    THEN [db |-> "index", raised |-> NoError,
          logged |-> <<[src |-> "Vector database initialized", text |-> ""]>>]
    ELSE [db |-> None, raised |-> failure,
          logged |-> <<[src |-> "Vector database initialization error",
                        text |-> Str(failure)]>>]

\* ------------------------------------------------------------- PostGenerator
\* Texts the generation model can return, as character sequences.
ModelTexts == {<<>>, <<" ">>, <<"p">>, <<" ", "p", " ">>}

IsSpace(c) == c = " "

RECURSIVE LStrip(_)
LStrip(s) == IF s # <<>> /\ IsSpace(Head(s)) THEN LStrip(Tail(s)) ELSE s

RECURSIVE RStrip(_)
RStrip(s) == IF s # <<>> /\ IsSpace(s[Len(s)])
               THEN RStrip(SubSeq(s, 1, Len(s) - 1)) ELSE s

\* str.strip()
strip(s) == RStrip(LStrip(s))

\* ------------------------------------------------------------------- agent
AgentStopped == "Agent stopped due to iteration limit or time limit."
FinalAnswer == "recent updates"

\* The loop condition of the agent executor built by initialize_agent.
ShouldContinue(i) == i < max_iterations

\* The fallback of _get_latest_info.
FallbackInfo(topic) ==
  "Based on industry trends and analysis, here are key insights about "
    \o topic \o "..."

\* One memory object made at module level and handed to every generator.
NewMemoryShared(r) == 1

\* ConversationBufferMemory(): every constructor call makes a new object.  A
\* request constructs one generator, so the new object is named after it.
NewMemory(r) == r

ValidationMessage == "Topic, tone, and audience are required"

\* ---------------------------------------------------------------- state
VARIABLES
  pc,          \* where each request is in the route
  req,         \* the request: method, body kind, the three fields
  resp,        \* the HTTP response
  db,          \* generator.vector_db.db
  memRef,      \* generator.memory: an object id, 0 before construction
  heap,        \* object id -> the exchanges saved in that memory object
  iterations,  \* the counter of the running agent loop
  searches,    \* calls of WebSearchTool.search made by the running agent
  lastSearch,  \* the latest search call: what it returned or raised
  agentOut,    \* agent.run: none, running, finish, stopped, raised, returned
  latest_info, \* generate_post's local: what _get_latest_info returned
  liRaised,    \* the exception _get_latest_info let through
  genCalls,    \* chain.run invocations
  genRaised,   \* the exception PostGenerator.generate ended with
  dbAtQuery,   \* vector_db.db at the time of similarity_search
  initFailed,  \* FAISS.from_texts threw in this request
  gpOut,       \* how LinkedInPostGenerator.generate_post ended
  errFrom,     \* the phase the request left with an error
  logs         \* log lines the generator and the route wrote per request

vars == <<pc, req, resp, db, memRef, heap, iterations, searches,
          lastSearch, agentOut, latest_info, liRaised, genCalls, genRaised,
          dbAtQuery, initFailed, gpOut, errFrom, logs>>

agentVars == <<iterations, searches, lastSearch, agentOut>>
genVars == <<db, memRef, heap>>
callVars == <<genCalls, genRaised, dbAtQuery>>

NoResp == [code |-> 0, status |-> "none", message |-> "", post |-> <<>>]
NoSearch == [raised |-> NoError, value |-> None]
Returned == [how |-> "returned", err |-> NoError]
NoReq == [method |-> None, body |-> None, topic |-> None, tone |-> None,
          audience |-> None]

Init ==
  /\ pc = [r \in Requests |-> "Idle"]
  /\ req = [r \in Requests |-> NoReq]
  /\ resp = [r \in Requests |-> NoResp]
  /\ db = [r \in Requests |-> None]
  /\ memRef = [r \in Requests |-> 0]
  /\ heap = [i \in Requests |-> <<>>]
  /\ iterations = [r \in Requests |-> 0]
  /\ searches = [r \in Requests |-> 0]
  /\ lastSearch = [r \in Requests |-> NoSearch]
  /\ agentOut = [r \in Requests |-> [how |-> "none", err |-> NoError]]
  /\ latest_info = [r \in Requests |-> None]
  /\ liRaised = [r \in Requests |-> NoError]
  /\ genCalls = [r \in Requests |-> 0]
  /\ genRaised = [r \in Requests |-> NoError]
  /\ dbAtQuery = [r \in Requests |-> "not queried"]
  /\ initFailed = [r \in Requests |-> FALSE]
  /\ gpOut = [r \in Requests |-> [how |-> "none", err |-> NoError]]
  /\ errFrom = [r \in Requests |-> None]
  /\ logs = [r \in Requests |-> <<>>]

\* --------------------------------------------------- the route's responses
\* The except clause of the route: a caught error becomes the JSON error
\* body with str(e); any other exception leaves the view function and the
\* framework answers 500 itself.
route_except(e) ==
  IF CaughtByRoute(e.kind)
    THEN [resp |-> [code |-> 500, status |-> "error", message |-> Str(e),
                    post |-> <<>>],
          logged |-> <<[src |-> "API error", text |-> Str(e)]>>]
    ELSE [resp |-> [code |-> 500, status |-> "unhandled", message |-> "",
                    post |-> <<>>],
          logged |-> <<>>]

\* The except clause of LinkedInPostGenerator.generate_post: one log line
\* for a caught kind, then a bare raise; other kinds pass through untouched.
generate_post_except(e) ==
  [raised |-> e,
   logged |-> IF CaughtByGeneratePost(e.kind)
                THEN <<[src |-> "Post generation error", text |-> Str(e)]>>
                ELSE <<>>]

\* ------------------------------------------------------------- the route
\* A request arrives.
Receive(r) ==
  /\ pc[r] = "Idle"
  /\ \/ req' = [req EXCEPT ![r] = [NoReq EXCEPT !.method = "OPTIONS"]]
     \/ req' = [req EXCEPT ![r] = [NoReq EXCEPT !.method = "POST",
                                                !.body = "nonobject"]]
     \/ \E b \in ObjectBodies :
          req' = [req EXCEPT ![r] = [method |-> "POST", body |-> "object",
                                     topic |-> b.topic, tone |-> b.tone,
                                     audience |-> b.audience]]
  /\ pc' = [pc EXCEPT ![r] = "Received"]
  /\ UNCHANGED <<resp, genVars, agentVars, callVars, latest_info, liRaised,
                 initFailed, gpOut, errFrom, logs>>

\* The preflight branch.
Preflight(r) ==
  /\ pc[r] = "Received"
  /\ req[r].method = "OPTIONS"
  /\ resp' = [resp EXCEPT ![r] = [code |-> 200, status |-> "ok",
                                  message |-> "", post |-> <<>>]]
  /\ pc' = [pc EXCEPT ![r] = "PreflightDone"]
  /\ UNCHANGED <<req, genVars, agentVars, callVars, latest_info, liRaised,
                 initFailed, gpOut, errFrom, logs>>

\* The exception the three data.get calls and the field test end with.
ValidationError(q) ==
  IF q.body # "object"
    THEN [kind |-> "AttributeError", text |-> "no attribute 'get'"]
    ELSE IF Falsy(q.topic) \/ Falsy(q.tone) \/ Falsy(q.audience)
           THEN [kind |-> "ValueError", text |-> ValidationMessage]
           ELSE NoError

\* data = request.get_json(), data.get(...) three times, the field test.
Validate(r) ==
  /\ pc[r] = "Received"
  /\ req[r].method = "POST"
  /\ LET e == ValidationError(req[r])
         h == route_except(e)
     IN IF e = NoError
          THEN /\ pc' = [pc EXCEPT ![r] = "Constructing"]
               /\ UNCHANGED <<resp, errFrom, logs>>
          ELSE /\ pc' = [pc EXCEPT ![r] = "Error"]
               /\ resp' = [resp EXCEPT ![r] = h.resp]
               /\ errFrom' = [errFrom EXCEPT ![r] = "Validating"]
               /\ logs' = [logs EXCEPT ![r] = @ \o h.logged]
  /\ UNCHANGED <<req, genVars, agentVars, callVars, latest_info, liRaised,
                 initFailed, gpOut>>

\* generator = LinkedInPostGenerator(): the embeddings and model clients,
\* the memory, VectorDB and initialize, PostGenerator, the agent.
Construct(r) ==
  /\ pc[r] = "Constructing"
  /\ \/ \* a client constructor raises before anything else is built
        \E e \in CtorFailures :
          /\ pc' = [pc EXCEPT ![r] = "Error"]
          /\ resp' = [resp EXCEPT ![r] = route_except(e).resp]
          /\ errFrom' = [errFrom EXCEPT ![r] = "Constructing"]
          /\ logs' = [logs EXCEPT ![r] = @ \o route_except(e).logged]
          /\ UNCHANGED <<db, memRef, agentOut, initFailed>>
     \/ \E failure \in {NoError} \cup InitFailures :
          LET mem == NewMemory(r)
              ini == initialize(failure)
              h == route_except(ini.raised)
          IN /\ db' = [db EXCEPT ![r] = ini.db]
             /\ initFailed' = [initFailed EXCEPT ![r] = (failure # NoError)]
             /\ IF ini.raised = NoError
                  THEN /\ memRef' = [memRef EXCEPT ![r] = mem]
                       /\ agentOut' = [agentOut EXCEPT ![r] =
                                         [how |-> IF ShouldContinue(0)
                                                    THEN "running" ELSE "stopped",
                                          err |-> NoError]]
                       /\ pc' = [pc EXCEPT ![r] = "FetchingLatestInfo"]
                       /\ logs' = [logs EXCEPT ![r] = @ \o ini.logged]
                       /\ UNCHANGED <<resp, errFrom>>
                  ELSE /\ pc' = [pc EXCEPT ![r] = "Error"]
                       /\ resp' = [resp EXCEPT ![r] = h.resp]
                       /\ errFrom' = [errFrom EXCEPT ![r] = "Constructing"]
                       /\ logs' = [logs EXCEPT ![r] = @ \o ini.logged \o h.logged]
                       /\ UNCHANGED <<memRef, agentOut>>
  /\ UNCHANGED <<req, heap, iterations, searches, lastSearch, callVars,
                 latest_info, liRaised, gpOut>>

\* ------------------------------------------------------------- the agent
Queries == {"recent updates on AI"}

\* The counter after a completed step, and whether the loop goes on.
AfterStep(i) ==
  [iterations |-> i + 1,
   how |-> IF ShouldContinue(i + 1) THEN "running" ELSE "stopped"]

\* One iteration of the agent loop inside agent.run: the model plans, and a
\* planned action calls the Web Search tool.  handle_parsing_errors turns an
\* unparseable reply into an observation; any exception ends the run.
AgentStep(r) ==
  /\ pc[r] = "FetchingLatestInfo"
  /\ agentOut[r].how = "running"
  /\ ShouldContinue(iterations[r])
  /\ \/ \* the model emits the final answer
        /\ agentOut' = [agentOut EXCEPT ![r] = [how |-> "finish", err |-> NoError]]
        /\ UNCHANGED <<iterations, searches, lastSearch>>
     \/ \* the reply does not parse
        /\ iterations' = [iterations EXCEPT ![r] = AfterStep(@).iterations]
        /\ agentOut' = [agentOut EXCEPT ![r] =
                          [how |-> AfterStep(iterations[r]).how, err |-> NoError]]
        /\ UNCHANGED <<searches, lastSearch>>
     \/ \* the model call fails
        \E e \in AgentFailures :
          /\ agentOut' = [agentOut EXCEPT ![r] = [how |-> "raised", err |-> e]]
          /\ UNCHANGED <<iterations, searches, lastSearch>>
     \/ \* the model asks for a web search
        \E q \in Queries, outcome \in LookupOutcomes :
          LET s == search(q, outcome)
          IN /\ searches' = [searches EXCEPT ![r] = @ + 1]
             /\ lastSearch' = [lastSearch EXCEPT ![r] =
                                 [raised |-> s.raised, value |-> s.value]]
             /\ IF s.raised = NoError
                  THEN /\ iterations' = [iterations EXCEPT ![r] =
                                           AfterStep(@).iterations]
                       /\ agentOut' = [agentOut EXCEPT ![r] =
                                         [how |-> AfterStep(iterations[r]).how,
                                          err |-> NoError]]
                  ELSE /\ agentOut' = [agentOut EXCEPT ![r] =
                                         [how |-> "raised", err |-> s.raised]]
                       /\ UNCHANGED iterations
  /\ UNCHANGED <<pc, req, resp, genVars, callVars, latest_info, liRaised,
                 initFailed, gpOut, errFrom, logs>>

\* agent.run returns or throws: the memory keeps the exchange of a finished
\* run, _get_latest_info returns the answer or its fallback, and what it
\* does not catch goes up through generate_post to the route.
get_latest_info(r) ==
  /\ pc[r] = "FetchingLatestInfo"
  /\ agentOut[r].how \in {"finish", "stopped", "raised"}
  /\ LET e == agentOut[r].err
         g == generate_post_except(e)
         h == route_except(g.raised)
     IN IF agentOut[r].how \in {"finish", "stopped"}
          THEN /\ heap' = [heap EXCEPT ![memRef[r]] = Append(@, r)]
               /\ latest_info' = [latest_info EXCEPT ![r] =
                    IF agentOut[r].how = "finish" THEN FinalAnswer
                                                  ELSE AgentStopped]
               /\ pc' = [pc EXCEPT ![r] = "Composing"]
               /\ UNCHANGED <<resp, liRaised, gpOut, errFrom, logs>>
          ELSE IF CaughtByLatestInfo(e.kind)
            THEN /\ latest_info' = [latest_info EXCEPT ![r] =
                                      FallbackInfo(req[r].topic)]
                 /\ logs' = [logs EXCEPT ![r] =
                      Append(@, [src |-> "Agent execution error",
                                 text |-> Str(e)])]
                 /\ pc' = [pc EXCEPT ![r] = "Composing"]
                 /\ UNCHANGED <<heap, resp, liRaised, gpOut, errFrom>>
            ELSE /\ liRaised' = [liRaised EXCEPT ![r] = e]
                 /\ gpOut' = [gpOut EXCEPT ![r] = [how |-> "raised", err |-> g.raised]]
                 /\ resp' = [resp EXCEPT ![r] = h.resp]
                 /\ logs' = [logs EXCEPT ![r] = @ \o g.logged \o h.logged]
                 /\ errFrom' = [errFrom EXCEPT ![r] = "FetchingLatestInfo"]
                 /\ pc' = [pc EXCEPT ![r] = "Error"]
                 /\ UNCHANGED <<heap, latest_info>>
  /\ iterations' = [iterations EXCEPT ![r] = 0]
  /\ searches' = [searches EXCEPT ![r] = 0]
  /\ lastSearch' = [lastSearch EXCEPT ![r] = NoSearch]
  /\ agentOut' = [agentOut EXCEPT ![r] = Returned]
  /\ UNCHANGED <<req, db, memRef, callVars, initFailed>>

\* ----------------------------------------------------------- composition
\* similarity_search throws, or chain.run returns a text or throws.
GenerateOutcomes ==
  [at : {"chain"}, text : ModelTexts, err : {NoError}]
    \cup [at : {"chain"}, text : {<<>>}, err : ChainFailures]
    \cup [at : {"index"}, text : {<<>>}, err : QueryFailures]

\* PostGenerator.generate inside generate_post inside the route: the index
\* query, one chain.run, strip; then the success body or the error path.
generate(r) ==
  /\ pc[r] = "Composing"
  /\ dbAtQuery' = [dbAtQuery EXCEPT ![r] = db[r]]
  /\ \E out \in GenerateOutcomes :
       LET e == IF db[r] = None
                  THEN [kind |-> "AttributeError",
                        text |-> "no attribute 'similarity_search'"]
                  ELSE out.err
           g == generate_post_except(e)
           h == route_except(g.raised)
       IN /\ genCalls' = [genCalls EXCEPT ![r] =
                           IF db[r] # None /\ out.at = "chain" THEN @ + 1 ELSE @]
          /\ genRaised' = [genRaised EXCEPT ![r] = e]
          /\ IF e = NoError
               THEN /\ gpOut' = [gpOut EXCEPT ![r] = [how |-> "returned", err |-> NoError]]
                    /\ resp' = [resp EXCEPT ![r] =
                                  [code |-> 200, status |-> "success",
                                   message |-> "", post |-> strip(out.text)]]
                    /\ pc' = [pc EXCEPT ![r] = "Done"]
                    /\ UNCHANGED <<errFrom, logs>>
               ELSE /\ gpOut' = [gpOut EXCEPT ![r] = [how |-> "raised", err |-> g.raised]]
                    /\ resp' = [resp EXCEPT ![r] = h.resp]
                    /\ logs' = [logs EXCEPT ![r] = @ \o g.logged \o h.logged]
                    /\ errFrom' = [errFrom EXCEPT ![r] = "Composing"]
                    /\ pc' = [pc EXCEPT ![r] = "Error"]
  /\ latest_info' = [latest_info EXCEPT ![r] = None]
  /\ UNCHANGED <<req, genVars, agentVars, liRaised, initFailed>>

Next ==
  \E r \in Requests :
    \/ Receive(r)
    \/ Preflight(r)
    \/ Validate(r)
    \/ Construct(r)
    \/ AgentStep(r)
    \/ get_latest_info(r)
    \/ generate(r)

Spec == Init /\ [][Next]_vars

\* ============================================================== claims
Handled == {"ValueError", "TypeError", "KeyError"}
Answered(r) == pc[r] \in {"Done", "Error"}
MissingField(q) == Falsy(q.topic) \/ Falsy(q.tone) \/ Falsy(q.audience)
AgentNeverRan(r) == agentOut[r].how = "none" /\ searches[r] = 0
NoDownstream(r) ==
  /\ memRef[r] = 0 /\ db[r] = None /\ ~initFailed[r]
  /\ AgentNeverRan(r) /\ genCalls[r] = 0 /\ dbAtQuery[r] = "not queried"
InRun(r) == agentOut[r].how \in {"running", "finish", "stopped", "raised"}
LoopEnded(r) == agentOut[r].how \in {"finish", "stopped", "raised"}
Lines(r, src) == Cardinality({i \in 1..Len(logs[r]) : logs[r][i].src = src})

\* C1: every POST request in which topic, tone or audience is absent or
\* empty is answered with status "error" and the message "Topic, tone, and
\* audience are required", and no generator, index, agent, search or
\* generation call has happened for it.
C1_MissingFieldRejected ==
  \A r \in Requests :
    (req[r].method = "POST" /\ MissingField(req[r]) /\ Answered(r)) =>
      /\ resp[r].status = "error"
      /\ resp[r].message = ValidationMessage
      /\ NoDownstream(r)

\* C2: WebSearchTool.search never raises: every call returns the live
\* abstract or one of the two fixed fallback strings.
C2_SearchNeverRaises ==
  \A r \in Requests :
    searches[r] > 0 =>
      /\ lastSearch[r].raised = NoError
      /\ lastSearch[r].value \in {LiveAbstract, FALLBACK_1, FALLBACK_2}

\* C3: _get_latest_info never raises: whatever went wrong inside the agent
\* run, the request moves on with the agent's answer or the templated
\* fallback about its topic.
C3_LatestInfoNeverRaises ==
  \A r \in Requests :
    /\ liRaised[r] = NoError
    /\ pc[r] = "Composing" =>
         latest_info[r] \in {FinalAnswer, AgentStopped, FallbackInfo(req[r].topic)}

\* C4: a post returned as a success is never the empty string.
C4_NoEmptySuccess ==
  \A r \in Requests : resp[r].status = "success" => resp[r].post # <<>>

\* C5: the client's error message does not depend on the internal exception:
\* two requests whose generation failed get the same message.
C5_GenericErrorMessage ==
  \A r1, r2 \in Requests :
    (/\ resp[r1].status = "error" /\ errFrom[r1] = "Composing"
     /\ resp[r2].status = "error" /\ errFrom[r2] = "Composing") =>
      resp[r1].message = resp[r2].message

\* C6: a request leaves with an error only from Validating or from
\* Composing, never while the latest info is fetched nor in a step between
\* validation and the fetch.
C6_ErrorExitsOnlyValidatingComposing ==
  \A r \in Requests :
    pc[r] = "Error" => errFrom[r] \in {"Validating", "Composing"}

\* C7 as stated: the agent loop has ended exactly when the model emitted a
\* final answer or the cap of 3 iterations was reached.
C7_EndsOnlyOnAnswerOrCap ==
  \A r \in Requests :
    InRun(r) =>
      (LoopEnded(r) <=> (agentOut[r].how = "finish" \/ iterations[r] = 3))

\* C7 as amended: one agent run makes at most 3 iterations and at most 3
\* searches; it stops without an answer only at the cap, never goes on past
\* it, and otherwise ends with the final answer or with the exception a
\* model or tool call raised.
C7_BoundedLoop ==
  \A r \in Requests :
    InRun(r) =>
      /\ iterations[r] <= 3
      /\ searches[r] <= 3
      /\ agentOut[r].how = "running" => iterations[r] < 3
      /\ agentOut[r].how = "stopped" => iterations[r] = 3
      /\ LoopEnded(r) <=>
           \/ agentOut[r].how = "finish"
           \/ iterations[r] = 3
           \/ agentOut[r].err # NoError

\* The model never answers, asks for a search in each of the three
\* iterations, and the run is stopped at the cap.
C7_Witness ==
  \E r \in Requests :
    /\ agentOut[r].how = "stopped"
    /\ iterations[r] = 3
    /\ searches[r] = 3

\* C8: every request has a memory object of its own, and a memory holds
\* only exchanges of the request it was created for.
C8_MemoryPerRequest ==
  \A r1 \in Requests :
    memRef[r1] # 0 =>
      /\ \A r2 \in Requests \ {r1} : memRef[r2] # memRef[r1]
      /\ \A i \in 1..Len(heap[memRef[r1]]) : heap[memRef[r1]][i] = r1

\* Two requests served at the same time have both saved an exchange.
C8_Witness ==
  \E r1, r2 \in Requests :
    /\ r1 # r2
    /\ memRef[r1] # 0 /\ heap[memRef[r1]] # <<>>
    /\ memRef[r2] # 0 /\ heap[memRef[r2]] # <<>>
    /\ pc[r1] = "Composing" /\ pc[r2] = "Composing"

\* C9: generate_post calls the generation chain at most once; an error from
\* the latest-info step or from PostGenerator.generate always reaches the
\* caller as the same exception, with exactly one "Post generation error"
\* log line when it is a value, type or key error and none otherwise.
C9_SingleAttemptHandlesThreeKinds ==
  \A r \in Requests :
    LET e == IF liRaised[r] # NoError THEN liRaised[r] ELSE genRaised[r]
    IN /\ genCalls[r] <= 1
       /\ e # NoError =>
            /\ gpOut[r] = [how |-> "raised", err |-> e]
            /\ pc[r] = "Error"
            /\ Lines(r, "Post generation error") =
                 IF e.kind \in Handled THEN 1 ELSE 0
       /\ e = NoError => Lines(r, "Post generation error") = 0

\* One request failed in generation with a value error, another with an
\* error of a kind that is not handled.
C9_Witness ==
  \E r1, r2 \in Requests :
    /\ genRaised[r1].kind = "ValueError" /\ genCalls[r1] = 1
    /\ genRaised[r2].kind = "ProviderError" /\ genCalls[r2] = 1

\* C10: similarity_search only ever runs on a built index, and a request
\* whose index construction failed ends there: no agent run, no index
\* query, no generation call.
C10_IndexBuiltBeforeQuery ==
  \A r \in Requests :
    /\ dbAtQuery[r] # "not queried" => dbAtQuery[r] = "index"
    /\ initFailed[r] =>
         /\ pc[r] = "Error" /\ errFrom[r] = "Constructing"
         /\ AgentNeverRan(r) /\ genCalls[r] = 0
         /\ dbAtQuery[r] = "not queried"

\* One request's index construction failed while another queried its index.
C10_Witness ==
  \E r1, r2 \in Requests :
    /\ initFailed[r1]
    /\ dbAtQuery[r2] = "index" /\ genCalls[r2] = 1

====
